---- MODULE Spec2Model ----
(***************************************************************************)
(* A state-machine model of comet/models/base.py: the CometModel lifecycle *)
(* (construction, setup, training_step, on_epoch_end, validation_step,     *)
(* validation_epoch_end, predict_step), the encoder freeze schedule and    *)
(* the two metrics accumulators.                                           *)
(*                                                                         *)
(* nr_frozen_epochs is a real number in the source.  It is modelled as an  *)
(* exact rational <<numerator, denominator>> (denominator > 0) and every   *)
(* comparison of the source is done by cross-multiplication.  For the      *)
(* values of FrozenEpochsValues and the step counts reachable here the     *)
(* IEEE double comparisons of the source give the same truth values.       *)
(***************************************************************************)
EXTENDS Integers, Sequences, FiniteSets, TLC

\* ------------------------------------------------------------------ bounds
MaxEpochs == 3          \* trainer.max_epochs of the modelled runs
MaxTrainSize == 3       \* len(train_dataset) ranges over 1..MaxTrainSize
MaxBatchSize == 2       \* hparams.batch_size ranges over 1..MaxBatchSize
MaxValSteps == 2        \* validation steps of one run of SpecValidation
LifecycleValSteps == 1  \* validation steps of one run of Spec
SetupExtraTrain == 1    \* SpecSetup: len(train_dataset) in SubsetSize..SubsetSize+SetupExtraTrain
MaxLayers == 2          \* encoder.num_layers ranges over 1..MaxLayers

\* ------------------------------------------------------- program constants
\* batch_size of the training run of the integration test
ScenarioBatchSize == 32
SubsetSize == 5         \* size=5 of np.random.choice in setup

\* nr_frozen_epochs values: -1, 0, 0.4 (the default), 0.5, 1, 1.5, 2
FrozenEpochsValues ==
  { <<0 - 1, 1>>, <<0, 1>>, <<2, 5>>, <<1, 2>>, <<1, 1>>, <<3, 2>>, <<2, 1>> }

\* trainer.num_gpus of the modelled runs (gpus=0 as in test_training, or one)
NumGpusValues == {0, 1}

\* One example of a batch is <<predicted score, target score>>: the score the
\* forward pass yields for the example and its gold score (in tenths).
\* <<3, 2>> and <<7, 8>> are predictions [0.3, 0.7] against scores [0.2, 0.8].
Examples == { <<3, 2>>, <<7, 8>> }

\* ------------------------------------------------------- rational helpers
Num(q) == q[1]
Den(q) == q[2]
\* q > 0, q < 1, n >= q, n > k * q for integers n, k and a rational q
RatPositive(q) == Num(q) > 0
RatBelowOne(q) == Num(q) < Den(q)
IntGeqRat(n, q) == n * Den(q) >= Num(q)
IntGtIntTimesRat(n, k, q) == n * Den(q) > k * Num(q)

Max(a, b) == IF a >= b THEN a ELSE b

\* ------------------------------------------------------------------- state
VARIABLES
  hparams,            \* self.hparams: nr_frozen_epochs, keep_embeddings_frozen, batch_size
  _frozen,            \* self._frozen
  encoder,            \* self.encoder: which parameter groups receive gradients
  encoder_calls,      \* calls made to the encoder: unfreeze, freeze_embeddings
  train_size,         \* len(self.train_dataset)
  num_gpus,           \* self.trainer.num_gpus
  max_epochs,         \* self.trainer.max_epochs
  pc,                 \* "constructed" before setup, "fit" after it
  epoch_total_steps,  \* self.epoch_total_steps
  total_steps,        \* self.total_steps
  train_subset,       \* indices drawn by setup for the overfit monitor
  current_epoch,      \* self.current_epoch
  batch_nb,           \* index of the next training batch of the epoch
  train_metrics,      \* self.train_metrics: accumulated <<prediction, target>> pairs
  val_metrics,        \* self.val_metrics
  logged_metrics,     \* last log_dict of validation_epoch_end: <<train, val>>
  train_loss_log,     \* the train_loss log: number of entries and the last one
  val_loss_log,       \* the val_loss log entries
  val_seen,           \* per stream: pairs of the multi-example batches since the last epoch end
  val_steps,          \* validation steps completed
  val_batch,          \* <<batch, dataloader_idx>> of the last validation_step
  predictions,        \* what the last predict_step returned
  trainable_steps,    \* training steps whose update ran with the encoder trainable
  layer,              \* self.hparams.layer: "mix" or an integer
  pool,               \* self.hparams.pool
  num_layers,         \* self.encoder.num_layers
  sentemb             \* outcome of the last get_sentence_embedding

vars == << hparams, _frozen, encoder, encoder_calls, train_size, num_gpus,
           max_epochs, pc, epoch_total_steps, total_steps, train_subset,
           current_epoch, batch_nb, train_metrics, val_metrics,
           logged_metrics, train_loss_log, val_loss_log, val_seen, val_steps,
           val_batch, predictions, trainable_steps, layer, pool, num_layers,
           sentemb >>

freeze_vars == << _frozen, encoder, encoder_calls >>
metrics_vars == << train_metrics, val_metrics, logged_metrics, val_loss_log,
                   val_seen, val_steps, val_batch >>
trainer_vars == << current_epoch, batch_nb >>
setup_vars == << pc, epoch_total_steps, total_steps, train_subset >>
config_vars == << hparams, train_size, num_gpus, max_epochs >>
embedding_vars == << layer, pool, num_layers, sentemb >>

Unset == 0 - 1

\* ----------------------------------------------------------------- encoder
\* The encoder of comet.encoders: a freshly loaded encoder trains everything.
Pretrained == [layers_trainable |-> TRUE, embeddings_trainable |-> TRUE]
EncoderFreeze(enc) == [layers_trainable |-> FALSE, embeddings_trainable |-> FALSE]
EncoderUnfreeze(enc) == [layers_trainable |-> TRUE, embeddings_trainable |-> TRUE]
EncoderFreezeEmbeddings(enc) == [enc EXCEPT !.embeddings_trainable = FALSE]

NoCalls == [unfreeze |-> 0, freeze_embeddings |-> 0]

\* The part of self the freeze schedule reads and writes.
Self == [frozen |-> _frozen, encoder |-> encoder, calls |-> encoder_calls]

\* freeze_encoder
freeze_encoder(self) == [self EXCEPT !.encoder = EncoderFreeze(@)]

\* self.hparams.nr_frozen_epochs > 0 of __init__
StartsFrozen_nonnegative(hp) == Num(hp.nr_frozen_epochs) >= 0
StartsFrozen(hp) == RatPositive(hp.nr_frozen_epochs)

\* __init__, from the freeze schedule on
init_model(hp) ==
  LET fresh == [frozen |-> FALSE, encoder |-> Pretrained, calls |-> NoCalls]
      s1 == IF StartsFrozen(hp)
            THEN freeze_encoder([fresh EXCEPT !.frozen = TRUE])
            ELSE [fresh EXCEPT !.frozen = FALSE]
  IN  IF hp.keep_embeddings_frozen
      THEN [s1 EXCEPT !.encoder = EncoderFreezeEmbeddings(@),
                      !.calls.freeze_embeddings = @ + 1]
      ELSE s1

\* unfreeze_encoder
unfreeze_encoder_unguarded(self, hp) ==
  [self EXCEPT
     !.encoder = IF hp.keep_embeddings_frozen
                 THEN EncoderFreezeEmbeddings(EncoderUnfreeze(@))
                 ELSE EncoderUnfreeze(@),
     !.frozen = FALSE,
     !.calls.unfreeze = @ + 1,
     !.calls.freeze_embeddings =
        IF hp.keep_embeddings_frozen THEN @ + 1 ELSE @]
unfreeze_encoder_embeddings_lost(self, hp) ==
  IF self.frozen
  THEN [self EXCEPT !.encoder = EncoderUnfreeze(@),
                    !.frozen = FALSE,
                    !.calls.unfreeze = @ + 1]
  ELSE self
unfreeze_encoder(self, hp) ==
  IF self.frozen
  THEN [self EXCEPT
          !.encoder = IF hp.keep_embeddings_frozen
                      THEN EncoderFreezeEmbeddings(EncoderUnfreeze(@))
                      ELSE EncoderUnfreeze(@),
          !.frozen = FALSE,
          !.calls.unfreeze = @ + 1,
          !.calls.freeze_embeddings =
             IF hp.keep_embeddings_frozen THEN @ + 1 ELSE @]
  ELSE self

\* on_epoch_end, called with self.current_epoch = epoch
on_epoch_end_flag_only(self, hp, epoch) ==
  IF IntGeqRat(epoch, hp.nr_frozen_epochs) /\ self.frozen
  THEN [self EXCEPT !.frozen = FALSE]
  ELSE self
on_epoch_end_strict(self, hp, epoch) ==
  IF IntGtIntTimesRat(epoch, 1, hp.nr_frozen_epochs) /\ self.frozen
  THEN [unfreeze_encoder(self, hp) EXCEPT !.frozen = FALSE]
  ELSE self
on_epoch_end(self, hp, epoch) ==
  IF IntGeqRat(epoch, hp.nr_frozen_epochs) /\ self.frozen
  THEN [unfreeze_encoder(self, hp) EXCEPT !.frozen = FALSE]
  ELSE self

\* the step-level check of training_step
step_level_check_flag_only(self, hp, nb, ets) ==
  IF /\ RatBelowOne(hp.nr_frozen_epochs)
     /\ RatPositive(hp.nr_frozen_epochs)
     /\ IntGtIntTimesRat(nb, ets, hp.nr_frozen_epochs)
  THEN [self EXCEPT !.frozen = FALSE]
  ELSE self
step_level_check_flag_follows(self, hp, nb, ets) ==
  IF /\ RatBelowOne(hp.nr_frozen_epochs)
     /\ RatPositive(hp.nr_frozen_epochs)
  THEN IF IntGtIntTimesRat(nb, ets, hp.nr_frozen_epochs)
       THEN [unfreeze_encoder(self, hp) EXCEPT !.frozen = FALSE]
       ELSE [self EXCEPT !.frozen = TRUE]
  ELSE self
step_level_check(self, hp, nb, ets) ==
  IF /\ RatBelowOne(hp.nr_frozen_epochs)
     /\ RatPositive(hp.nr_frozen_epochs)
     /\ IntGtIntTimesRat(nb, ets, hp.nr_frozen_epochs)
  THEN [unfreeze_encoder(self, hp) EXCEPT !.frozen = FALSE]
  ELSE self

\* ------------------------------------------------------------ loss, batches
RECURSIVE SumSquaredError(_)
SumSquaredError(batch) ==
  IF batch = << >> THEN 0
  ELSE (Head(batch)[1] - Head(batch)[2]) * (Head(batch)[1] - Head(batch)[2])
       + SumSquaredError(Tail(batch))

\* compute_loss: nn.MSELoss(reduction="sum") of the predictions and targets
compute_loss(batch) == SumSquaredError(batch)

\* batch_prediction["score"].view(-1)
Predictions(batch) == [i \in 1..Len(batch) |-> batch[i][1]]

\* Batches of 1..maxlen examples drawn from E
BatchesOver(E, maxlen) == UNION { [1..n -> E] : n \in 1..maxlen }

\* len(self.train_dataloader()): DataLoader keeps the last, shorter batch
NumTrainBatches(n, bs) == (n + bs - 1) \div bs
\* number of examples of training batch nb
TrainBatchLen(n, bs, nb) == IF (nb + 1) * bs <= n THEN bs ELSE n - nb * bs

\* ------------------------------------------------------ metrics accumulators
Update(acc, batch) == acc \o batch
Compute(acc) == [nan |-> acc = << >>, over |-> acc]
Reset(acc) == << >>

\* the routing of validation_step: <<train_metrics, val_metrics>> afterwards
route_metrics_swapped(tm, vm, batch, dataloader_idx) ==
  IF Len(batch) # 1
  THEN IF dataloader_idx = 0 THEN <<tm, Update(vm, batch)>>
       ELSE IF dataloader_idx = 1 THEN <<Update(tm, batch), vm>>
       ELSE <<tm, vm>>
  ELSE <<tm, vm>>
route_metrics_always(tm, vm, batch, dataloader_idx) ==
  IF dataloader_idx = 0 THEN <<Update(tm, batch), vm>>
  ELSE IF dataloader_idx = 1 THEN <<tm, Update(vm, batch)>>
  ELSE <<tm, vm>>
route_metrics(tm, vm, batch, dataloader_idx) ==
  IF Len(batch) # 1
  THEN IF dataloader_idx = 0 THEN <<Update(tm, batch), vm>>
       ELSE IF dataloader_idx = 1 THEN <<tm, Update(vm, batch)>>
       ELSE <<tm, vm>>
  ELSE <<tm, vm>>

\* validation_epoch_end: [logged |-> what log_dict received, tm, vm afterwards]
epoch_end_reset_first(tm, vm) ==
  [logged |-> <<Compute(Reset(tm)), Compute(Reset(vm))>>,
   tm |-> Reset(tm), vm |-> Reset(vm)]
epoch_end_metrics(tm, vm) ==
  [logged |-> <<Compute(tm), Compute(vm)>>, tm |-> Reset(tm), vm |-> Reset(vm)]

\* np.random.choice(a=a, size=size): sampling with replacement (replace=True)
RandomChoice(a, size) == [1..size -> 0..(a - 1)]

\* Two outcomes of the draw used where the drawn indices are not looked at
SomeChoices(a, size) ==
  { [i \in 1..size |-> 0], [i \in 1..size |-> (i - 1) % a] }

\* setup: the number of steps it takes an epoch to have
EpochTotalSteps_dataset_size(n, bs, gpus) == n \div Max(1, gpus)
EpochTotalSteps(n, bs, gpus) == n \div (bs * Max(1, gpus))

\* predict_step: what it returns, and the accumulators and the val_loss log
\* afterwards (it touches none of them)
predict_step_as_validation(tm, vm, log, batch) ==
  [ret |-> Predictions(batch),
   tm |-> tm,
   vm |-> IF Len(batch) # 1 THEN Update(vm, batch) ELSE vm,
   val_loss_log |-> Append(log, compute_loss(batch))]
predict_step(tm, vm, log, batch) ==
  [ret |-> Predictions(batch), tm |-> tm, vm |-> vm, val_loss_log |-> log]

\* ------------------------------------------------------ sentence embedding
\* hparams.layer: "mix", or an integer index
MixLayer == [mix |-> TRUE, index |-> 0]
IntLayer(k) == [mix |-> FALSE, index |-> k]

\* Tensors are named by where they come from: <<"layer", k>> is
\* encoder_out["all_layers"][k], <<"mix", 0>> the layerwise attention's output,
\* <<"sentemb", 0>> encoder_out["sentemb"], <<"none", 0>> no tensor.
NoTensor == <<"none", 0>>
NativeSentemb == <<"sentemb", 0>>
NoIndex == 0 - 99

PoolNames == {"default", "max", "avg", "cls"}

NotCalled ==
  [called |-> FALSE, error |-> "none", offending |-> NoIndex,
   embeddings |-> NoTensor, policy |-> "none", sentemb |-> NoTensor]

\* __init__: self.layerwise_attention is a LayerwiseAttention exactly when
\* layer == "mix", else None
layerwise_attention(l) == l.mix

\* the layer branch of get_sentence_embedding: the token embeddings, or the
\* "Invalid model layer {}" exception
select_embeddings_inclusive(l, n) ==
  IF layerwise_attention(l) THEN [error |-> "none", embeddings |-> <<"mix", 0>>]
  ELSE IF l.index >= 0 /\ l.index <= n
       THEN [error |-> "none", embeddings |-> <<"layer", l.index>>]
       ELSE [error |-> "layer", embeddings |-> NoTensor]
select_embeddings(l, n) ==
  IF layerwise_attention(l) THEN [error |-> "none", embeddings |-> <<"mix", 0>>]
  ELSE IF l.index >= 0 /\ l.index < n
       THEN [error |-> "none", embeddings |-> <<"layer", l.index>>]
       ELSE [error |-> "layer", embeddings |-> NoTensor]

\* the pooling branch: the policy applied and the tensor it reduces, or the
\* "Invalid pooling technique." exception
pool_embeddings_cls_fallback(p, embeddings) ==
  IF p = "default"
  THEN [error |-> "none", policy |-> "default", sentemb |-> NativeSentemb]
  ELSE IF p = "max"
  THEN [error |-> "none", policy |-> "max", sentemb |-> embeddings]
  ELSE IF p = "avg"
  THEN [error |-> "none", policy |-> "avg", sentemb |-> embeddings]
  ELSE [error |-> "none", policy |-> "cls", sentemb |-> embeddings]
pool_embeddings_default_pooled(p, embeddings) ==
  IF p = "default"
  THEN [error |-> "none", policy |-> "default", sentemb |-> embeddings]
  ELSE IF p = "max"
  THEN [error |-> "none", policy |-> "max", sentemb |-> embeddings]
  ELSE IF p = "avg"
  THEN [error |-> "none", policy |-> "avg", sentemb |-> embeddings]
  ELSE IF p = "cls"
  THEN [error |-> "none", policy |-> "cls", sentemb |-> embeddings]
  ELSE [error |-> "pool", policy |-> "none", sentemb |-> NoTensor]
pool_embeddings(p, embeddings) ==
  IF p = "default"
  THEN [error |-> "none", policy |-> "default", sentemb |-> NativeSentemb]
  ELSE IF p = "max"
  THEN [error |-> "none", policy |-> "max", sentemb |-> embeddings]
  ELSE IF p = "avg"
  THEN [error |-> "none", policy |-> "avg", sentemb |-> embeddings]
  ELSE IF p = "cls"
  THEN [error |-> "none", policy |-> "cls", sentemb |-> embeddings]
  ELSE [error |-> "pool", policy |-> "none", sentemb |-> NoTensor]

\* get_sentence_embedding: the layer branch runs first and its exception ends
\* the call before the pooling branch is reached
get_sentence_embedding(l, p, n) ==
  LET sel == select_embeddings(l, n)
      pooled == pool_embeddings(p, sel.embeddings)
  IN  IF sel.error # "none"
      THEN [called |-> TRUE, error |-> "layer", offending |-> l.index,
            embeddings |-> NoTensor, policy |-> "none", sentemb |-> NoTensor]
      ELSE [called |-> TRUE, error |-> pooled.error, offending |-> NoIndex,
            embeddings |-> sel.embeddings, policy |-> pooled.policy,
            sentemb |-> pooled.sentemb]

\* -------------------------------------------------------------------- Init
Hparams ==
  [nr_frozen_epochs : FrozenEpochsValues,
   keep_embeddings_frozen : BOOLEAN,
   batch_size : 1..MaxBatchSize]

InitRun(HP, sizes) ==
  /\ hparams \in HP
  /\ _frozen = init_model(hparams).frozen
  /\ encoder = init_model(hparams).encoder
  /\ encoder_calls = init_model(hparams).calls
  /\ train_size \in sizes
  /\ num_gpus \in NumGpusValues
  /\ max_epochs = MaxEpochs
  /\ pc = "constructed"
  /\ epoch_total_steps = Unset
  /\ total_steps = Unset
  /\ train_subset = << >>
  /\ current_epoch = 0
  /\ batch_nb = 0
  /\ train_metrics = << >>
  /\ val_metrics = << >>
  /\ logged_metrics = << >>
  /\ train_loss_log = [n |-> 0, last |-> 0]
  /\ val_loss_log = << >>
  /\ val_seen = [i \in {0, 1} |-> << >>]
  /\ val_steps = 0
  /\ val_batch = << >>
  /\ predictions = << >>
  /\ trainable_steps = 0
  /\ sentemb = NotCalled

\* layer="mix" and pool="avg" are the defaults of __init__
InitOver(HP, sizes) ==
  /\ InitRun(HP, sizes)
  /\ layer = MixLayer
  /\ pool = "avg"
  /\ num_layers = MaxLayers

Init == InitOver(Hparams, 1..MaxTrainSize)

\* ----------------------------------------------------------------- actions
\* setup, with `draw` the outcome of np.random.choice
Setup(draw) ==
  /\ pc = "constructed"
  /\ pc' = "fit"
  /\ epoch_total_steps' =
       EpochTotalSteps(train_size, hparams.batch_size, num_gpus)
  /\ total_steps' =
       EpochTotalSteps(train_size, hparams.batch_size, num_gpus) * max_epochs
  /\ train_subset' = draw
  /\ train_metrics' = << >>
  /\ val_metrics' = << >>
  /\ UNCHANGED << config_vars, freeze_vars, trainer_vars, logged_metrics,
                  train_loss_log, val_loss_log, val_seen, val_steps,
                  val_batch, predictions, trainable_steps, embedding_vars >>

\* training_step on training batch batch_nb of the current epoch
TrainingStep(batch) ==
  /\ pc = "fit"
  /\ current_epoch < max_epochs
  /\ batch_nb < NumTrainBatches(train_size, hparams.batch_size)
  /\ Len(batch) = TrainBatchLen(train_size, hparams.batch_size, batch_nb)
  /\ LET s == step_level_check(Self, hparams, batch_nb, epoch_total_steps)
     IN  /\ _frozen' = s.frozen
         /\ encoder' = s.encoder
         /\ encoder_calls' = s.calls
         /\ trainable_steps' = IF s.encoder.layers_trainable
                               THEN trainable_steps + 1
                               ELSE trainable_steps
  /\ train_loss_log' = [n |-> train_loss_log.n + 1, last |-> compute_loss(batch)]
  /\ batch_nb' = batch_nb + 1
  /\ UNCHANGED << config_vars, setup_vars, current_epoch, metrics_vars,
                  predictions, embedding_vars >>

\* on_epoch_end after the last training step of the epoch; the trainer then
\* moves on to the next epoch
OnEpochEnd ==
  /\ pc = "fit"
  /\ current_epoch < max_epochs
  /\ batch_nb = NumTrainBatches(train_size, hparams.batch_size)
  /\ LET s == on_epoch_end(Self, hparams, current_epoch)
     IN  /\ _frozen' = s.frozen
         /\ encoder' = s.encoder
         /\ encoder_calls' = s.calls
  /\ current_epoch' = current_epoch + 1
  /\ batch_nb' = 0
  /\ UNCHANGED << config_vars, setup_vars, metrics_vars, train_loss_log,
                  predictions, trainable_steps, embedding_vars >>

\* validation_step on a batch of stream dataloader_idx
ValidationStep(batch, dataloader_idx) ==
  /\ pc = "fit"
  /\ Len(batch) <= hparams.batch_size
  /\ val_loss_log' = Append(val_loss_log, compute_loss(batch))
  /\ LET r == route_metrics(train_metrics, val_metrics, batch, dataloader_idx)
     IN  /\ train_metrics' = r[1]
         /\ val_metrics' = r[2]
  /\ val_seen' = IF Len(batch) # 1
                 THEN [val_seen EXCEPT ![dataloader_idx] = @ \o batch]
                 ELSE val_seen
  /\ val_steps' = val_steps + 1
  /\ val_batch' = <<batch, dataloader_idx>>
  /\ UNCHANGED << config_vars, setup_vars, freeze_vars, trainer_vars,
                  logged_metrics, train_loss_log, predictions,
                  trainable_steps, embedding_vars >>

\* validation_epoch_end
ValidationEpochEnd ==
  /\ pc = "fit"
  /\ LET r == epoch_end_metrics(train_metrics, val_metrics)
     IN  /\ logged_metrics' = r.logged
         /\ train_metrics' = r.tm
         /\ val_metrics' = r.vm
  /\ val_seen' = [i \in {0, 1} |-> << >>]
  /\ UNCHANGED << config_vars, setup_vars, freeze_vars, trainer_vars,
                  train_loss_log, val_loss_log, val_steps, val_batch,
                  predictions, trainable_steps, embedding_vars >>

\* predict_step
PredictStep(batch) ==
  /\ Len(batch) <= hparams.batch_size
  /\ LET r == predict_step(train_metrics, val_metrics, val_loss_log, batch)
     IN  /\ predictions' = r.ret
         /\ train_metrics' = r.tm
         /\ val_metrics' = r.vm
         /\ val_loss_log' = r.val_loss_log
  /\ UNCHANGED << config_vars, setup_vars, freeze_vars, trainer_vars,
                  logged_metrics, val_seen, val_steps, val_batch,
                  train_loss_log, trainable_steps, embedding_vars >>

\* get_sentence_embedding, as the forward pass of a concrete model calls it
GetSentenceEmbedding ==
  /\ sentemb' = get_sentence_embedding(layer, pool, num_layers)
  /\ UNCHANGED << config_vars, setup_vars, freeze_vars, trainer_vars,
                  metrics_vars, train_loss_log, predictions, trainable_steps,
                  layer, pool, num_layers >>

\* ---------------------------------------------------------- specifications
\* Spec: the whole lifecycle.  Its batches are built from one example value
\* and setup's draw is one of SomeChoices: the freeze schedule reads neither.
LifecycleExamples == { <<3, 2>> }

Next ==
  \/ \E draw \in SomeChoices(train_size, SubsetSize) : Setup(draw)
  \/ \E batch \in BatchesOver(LifecycleExamples, MaxBatchSize) :
       TrainingStep(batch)
  \/ OnEpochEnd
  \/ /\ val_steps < LifecycleValSteps
     /\ \E batch \in BatchesOver(LifecycleExamples, MaxBatchSize),
           idx \in {0, 1} : ValidationStep(batch, idx)
  \/ ValidationEpochEnd
  \/ \E batch \in BatchesOver(LifecycleExamples, 1) : PredictStep(batch)

Spec == Init /\ [][Next]_vars

\* SpecValidation: the validation loop of a model with the default freeze
\* schedule, on batches of every content.
DefaultHparams ==
  { hp \in Hparams : /\ hp.nr_frozen_epochs = <<2, 5>>
                     /\ hp.keep_embeddings_frozen = FALSE }

InitValidation == InitOver(DefaultHparams, {MaxTrainSize}) /\ num_gpus = 0

NextValidation ==
  \/ \E draw \in SomeChoices(train_size, SubsetSize) : Setup(draw)
  \/ /\ val_steps < MaxValSteps
     /\ \E batch \in BatchesOver(Examples, MaxBatchSize),
           idx \in {0, 1} : ValidationStep(batch, idx)
  \/ ValidationEpochEnd

SpecValidation == InitValidation /\ [][NextValidation]_vars

\* SpecSetup: setup with every outcome of the draw, on training sets that
\* hold at least SubsetSize examples.
InitSetup ==
  /\ InitOver(DefaultHparams, SubsetSize..(SubsetSize + SetupExtraTrain))
  /\ num_gpus = 0

NextSetup ==
  /\ pc = "constructed"
  /\ \E draw \in RandomChoice(train_size, SubsetSize) : Setup(draw)

SpecSetup == InitSetup /\ [][NextSetup]_vars

\* SpecScenario: the default freeze schedule on a training set of two batches
\* of ScenarioBatchSize examples.
ScenarioTrainSize == 2 * ScenarioBatchSize

ScenarioHparams ==
  [nr_frozen_epochs : { <<2, 5>> },
   keep_embeddings_frozen : BOOLEAN,
   batch_size : { ScenarioBatchSize }]

InitScenario == InitOver(ScenarioHparams, {ScenarioTrainSize})

NextScenario ==
  \/ \E draw \in SomeChoices(train_size, SubsetSize) : Setup(draw)
  \/ \E batch \in BatchesOver(LifecycleExamples, ScenarioBatchSize) :
       TrainingStep(batch)
  \/ OnEpochEnd
  \/ /\ val_steps < LifecycleValSteps
     /\ \E batch \in BatchesOver(LifecycleExamples, MaxBatchSize),
           idx \in {0, 1} : ValidationStep(batch, idx)
  \/ ValidationEpochEnd

SpecScenario == InitScenario /\ [][NextScenario]_vars

\* SpecEmbedding: get_sentence_embedding on a model constructed with every
\* layer selector and pooling name, recognised or not.
LayerValues == {MixLayer} \cup { IntLayer(k) : k \in (0 - 1)..(MaxLayers + 1) }
PoolValues == PoolNames \cup {"sum", "mean"}

InitEmbedding ==
  /\ InitRun(DefaultHparams, {MaxTrainSize})
  /\ num_gpus = 0
  /\ layer \in LayerValues
  /\ pool \in PoolValues
  /\ num_layers \in 1..MaxLayers

NextEmbedding == GetSentenceEmbedding

SpecEmbedding == InitEmbedding /\ [][NextEmbedding]_vars

\* SpecPredict: predict_step on batches of every content, anywhere in a run of
\* a model with the default freeze schedule.
InitPredict == InitOver(DefaultHparams, 1..MaxTrainSize) /\ num_gpus = 0

NextPredict ==
  \/ \E draw \in SomeChoices(train_size, SubsetSize) : Setup(draw)
  \/ \E batch \in BatchesOver(LifecycleExamples, MaxBatchSize) :
       TrainingStep(batch)
  \/ OnEpochEnd
  \/ /\ val_steps < LifecycleValSteps
     /\ \E batch \in BatchesOver(LifecycleExamples, MaxBatchSize),
           idx \in {0, 1} : ValidationStep(batch, idx)
  \/ ValidationEpochEnd
  \/ \E batch \in BatchesOver(Examples, MaxBatchSize) : PredictStep(batch)

SpecPredict == InitPredict /\ [][NextPredict]_vars

\* ------------------------------------------------------------------ claims
F == hparams.nr_frozen_epochs
\* frozen_epochs is an integer >= 1
IntegerSchedule == Den(F) = 1 /\ Num(F) >= 1
\* 0 < frozen_epochs < 1
FractionalSchedule == RatPositive(F) /\ RatBelowOne(F)
\* training steps of the current epoch that have returned
StepsDone == batch_nb
EpochLength == NumTrainBatches(train_size, hparams.batch_size)

\* C1: for an integer frozen_epochs >= 1 the encoder is frozen in every
\* training step of epochs 0 .. frozen_epochs-1 and trainable in every training
\* step of epoch frozen_epochs and later, and it is unfrozen at most once.
\* (batch_nb > 0: a training step of current_epoch has returned; for these
\* schedules the step-level check is inert, so the flag after the step is the
\* flag during it.)
C1_FrozenExactlyBelowFrozenEpochs ==
  (pc = "fit" /\ IntegerSchedule) =>
     /\ (StepsDone > 0 => (_frozen <=> current_epoch < Num(F)))
     /\ (StepsDone > 0 => (encoder.layers_trainable <=> current_epoch >= Num(F)))
     /\ encoder_calls.unfreeze <= 1

\* C2: for 0 < frozen_epochs < 1 the encoder is unfrozen within epoch 0: it is
\* frozen exactly until a training step of epoch 0 whose index exceeds
\* epoch_total_steps * frozen_epochs has run, and it is unfrozen once the last
\* training step of epoch 0 has returned.
C2_UnfreezesWithinEpochZero ==
  (pc = "fit" /\ FractionalSchedule) =>
     /\ current_epoch = 0 =>
          (_frozen <=> ~ \E nb \in 0..(StepsDone - 1) :
                           IntGtIntTimesRat(nb, epoch_total_steps, F))
     /\ (current_epoch >= 1 \/ StepsDone = EpochLength) => ~ _frozen

\* C3: with frozen_epochs <= 0 the encoder is never frozen, after construction
\* and after every operation.
C3_NeverFrozenWhenDisabled ==
  ~ RatPositive(F) =>
     /\ ~ _frozen
     /\ encoder.layers_trainable
     /\ encoder_calls.unfreeze = 0

C3_Witness ==
  /\ ~ RatPositive(F)
  /\ ~ _frozen
  /\ current_epoch >= 2
  /\ StepsDone > 0
  /\ val_steps >= 1
  /\ logged_metrics # << >>
  /\ predictions # << >>

\* C4: once _frozen is false it stays false; the flag only ever changes from
\* true to false, the encoder only from frozen to trainable, and a model with
\* frozen_epochs <= 0 makes no transition.
C4_Irreversible ==
  [][ /\ ~ _frozen => ~ _frozen'
      /\ encoder.layers_trainable => encoder'.layers_trainable
      /\ ~ RatPositive(F) => (_frozen' = _frozen /\ encoder' = encoder) ]_vars

C4_Witness ==
  /\ RatPositive(F)
  /\ ~ _frozen
  /\ encoder_calls.unfreeze = 1
  /\ current_epoch = max_epochs
  /\ val_steps >= 1
  /\ logged_metrics # << >>
  /\ predictions # << >>

\* C5: once _frozen is false no operation changes the flag, the encoder or the
\* calls made to it (no unfreeze, no freeze_embeddings), and the encoder's
\* unfreeze is called at most once in a run.
C5_UnfreezeIdempotent ==
  [][ /\ ~ _frozen => UNCHANGED << _frozen, encoder, encoder_calls >>
      /\ encoder_calls'.unfreeze <= 1 ]_vars

\* Both checks have run with their conditions true after the unfreeze: a
\* training step of a later epoch past the threshold, and two epoch ends.
C5_Witness ==
  /\ FractionalSchedule
  /\ ~ _frozen
  /\ encoder_calls.unfreeze = 1
  /\ current_epoch >= 2
  /\ StepsDone > 0
  /\ IntGtIntTimesRat(StepsDone - 1, epoch_total_steps, F)

\* C6: with keep_embeddings_frozen the embedding parameters are frozen after
\* construction and after every operation, for every frozen_epochs.
C6_EmbeddingsStayFrozen ==
  hparams.keep_embeddings_frozen => ~ encoder.embeddings_trainable

C6_Witness ==
  /\ hparams.keep_embeddings_frozen
  /\ encoder_calls.unfreeze = 1
  /\ ~ _frozen
  /\ encoder.layers_trainable
  /\ ~ encoder.embeddings_trainable

\* C7: each accumulator holds exactly the pairs of the multi-example batches of
\* its own stream since the last reset, in arrival order, and nothing of the
\* other stream.
C7_StreamIsolation ==
  pc = "fit" => /\ train_metrics = val_seen[0]
                /\ val_metrics = val_seen[1]

C7_Witness ==
  /\ val_steps = 2
  /\ val_batch[2] = 0
  /\ train_metrics = << <<7, 8>>, <<3, 2>> >>
  /\ val_metrics = << <<3, 2>>, <<7, 8>> >>

\* C8: validation_epoch_end emits the statistics of both accumulators as they
\* stand (the pairs of each stream since the previous epoch end) and leaves
\* both accumulators empty, so that a later compute is the empty-state result.
C8_EpochEndComputesThenResets ==
  [][ ValidationEpochEnd =>
        /\ logged_metrics' = << Compute(val_seen[0]), Compute(val_seen[1]) >>
        /\ train_metrics' = << >>
        /\ val_metrics' = << >>
        /\ Compute(train_metrics').nan
        /\ Compute(val_metrics').nan ]_vars

\* Two two-example batches were validated and an epoch end lies between them:
\* the last statistics are those of the stream-1 batch [0.3, 0.7] / [0.2, 0.8]
\* alone.
C8_Witness ==
  /\ val_loss_log = << 2, 2 >>
  /\ train_metrics = << >>
  /\ val_metrics = << >>
  /\ logged_metrics = << Compute(<< >>), Compute(<< <<3, 2>>, <<7, 8>> >>) >>

\* C9: every validation step logs its loss as val_loss; a one-example batch
\* changes neither accumulator, a larger batch is appended to the accumulator of
\* its stream and to no other.
C9_SingleExampleSkipped ==
  [][ val_steps' = val_steps + 1 =>
        LET b == val_batch'[1]
            idx == val_batch'[2]
        IN  /\ val_loss_log' = Append(val_loss_log, compute_loss(b))
            /\ Len(b) = 1 => UNCHANGED << train_metrics, val_metrics >>
            /\ (Len(b) >= 2 /\ idx = 0) =>
                 /\ train_metrics' = train_metrics \o b
                 /\ UNCHANGED val_metrics
            /\ (Len(b) >= 2 /\ idx = 1) =>
                 /\ val_metrics' = val_metrics \o b
                 /\ UNCHANGED train_metrics ]_vars

C9_Witness ==
  /\ val_steps = 2
  /\ Len(val_batch[1]) = 1
  /\ val_loss_log = << 2, 1 >>
  /\ logged_metrics = << >>
  /\ train_metrics = << <<3, 2>>, <<7, 8>> >>
  /\ val_metrics = << >>

\* C10: the SubsetSize indices drawn by setup are pairwise distinct valid
\* indices of the training set.
C10_SubsetWithoutReplacement ==
  pc = "fit" =>
     /\ Len(train_subset) = SubsetSize
     /\ \A i \in 1..SubsetSize : train_subset[i] \in 0..(train_size - 1)
     /\ \A i, j \in 1..SubsetSize : i # j => train_subset[i] # train_subset[j]

\* C11: with frozen_epochs = 0.4, batch_size = 32 and 64 training examples on
\* a single device, setup yields epoch_total_steps = 2; the encoder is still
\* frozen when training step 0 of epoch 0 has returned and unfrozen when
\* training step 1 of epoch 0 has returned.
C11_ScenarioUnfreezesAtStepOne ==
  pc = "fit" =>
    /\ epoch_total_steps = 2
    /\ (current_epoch = 0 /\ StepsDone <= 1) =>
         (_frozen /\ ~encoder.layers_trainable)
    /\ (current_epoch = 0 /\ StepsDone = 2) =>
         (~_frozen /\ encoder.layers_trainable)

C11_Witness ==
  /\ pc = "fit" /\ current_epoch = 0 /\ StepsDone = 2
  /\ train_size = 64 /\ hparams.batch_size = 32
  /\ train_loss_log.n = 2
  /\ ~_frozen

\* the fixed layer index lies in [0, num_layers)
LayerInRange == layer.index >= 0 /\ layer.index < num_layers

\* C12: in fixed-layer mode an index outside [0, num_layers) is accepted by the
\* constructor and fails only when get_sentence_embedding is called, with the
\* error that names the index and without an embedding; an index inside the
\* range selects exactly that layer's output and raises no layer error, and no
\* error at all under each of the four pooling strategies.
C12_LayerIndexCheckedAtUse ==
  ~layer.mix =>
    /\ ~sentemb.called => sentemb.error = "none"
    /\ (sentemb.called /\ ~LayerInRange) =>
         /\ sentemb.error = "layer"
         /\ sentemb.offending = layer.index
         /\ sentemb.sentemb = NoTensor
    /\ (sentemb.called /\ LayerInRange) =>
         /\ sentemb.error # "layer"
         /\ sentemb.error = "none" => sentemb.embeddings = <<"layer", layer.index>>
         /\ pool \in PoolNames => sentemb.error = "none"

C12_Witness ==
  /\ sentemb.called
  /\ ~layer.mix /\ layer.index = num_layers
  /\ pool = "default"
  /\ sentemb.error = "layer" /\ sentemb.offending = num_layers

\* C13: with a pooling name outside {default, max, avg, cls}
\* get_sentence_embedding fails and returns no embedding (with the pooling
\* error whenever the layer selector is valid); with each of the four names it
\* raises no pooling error and applies exactly that policy.
C13_PoolingNameCheckedAtUse ==
  sentemb.called =>
    /\ pool \notin PoolNames =>
         /\ sentemb.error # "none"
         /\ sentemb.sentemb = NoTensor /\ sentemb.policy = "none"
         /\ (layer.mix \/ LayerInRange) => sentemb.error = "pool"
    /\ pool \in PoolNames =>
         /\ sentemb.error # "pool"
         /\ sentemb.error = "none" => sentemb.policy = pool

C13_Witness ==
  /\ sentemb.called
  /\ pool = "sum" /\ layer.mix
  /\ sentemb.error = "pool" /\ sentemb.sentemb = NoTensor

\* C16 as stated: with pool "default" get_sentence_embedding returns the
\* native sentence embedding for every layer selector, "mix" or any integer.
C16_DefaultIgnoresLayerSelector ==
  (sentemb.called /\ pool = "default") =>
    (sentemb.error = "none" /\ sentemb.sentemb = NativeSentemb)

\* C16, amended: with pool "default" get_sentence_embedding returns the native
\* sentence embedding for layer "mix" and for every integer in
\* [0, num_layers), whichever it is; for an integer outside that range it
\* raises the layer error and returns nothing.
C16_DefaultIgnoresValidLayerSelector ==
  (sentemb.called /\ pool = "default") =>
    IF layer.mix \/ LayerInRange
    THEN sentemb.error = "none" /\ sentemb.sentemb = NativeSentemb
    ELSE sentemb.error = "layer" /\ sentemb.sentemb = NoTensor

C16_Witness ==
  /\ sentemb.called /\ pool = "default"
  /\ ~layer.mix /\ layer.index = 1 /\ num_layers = 2
  /\ sentemb.sentemb = NativeSentemb
  /\ sentemb.embeddings = <<"layer", 1>>

\* C14: predict_step returns only the flattened predicted scores of its batch
\* and leaves both accumulators, the logged metrics, the loss logs, _frozen
\* and the encoder's trainable state unchanged, wherever in the run it is
\* called.  (A step that changes `predictions` is a predict_step.)
C14_PredictStepFrame ==
  [][predictions' # predictions =>
       /\ predictions' \in
            { Predictions(b) : b \in BatchesOver(Examples, hparams.batch_size) }
       /\ UNCHANGED << train_metrics, val_metrics, logged_metrics,
                       val_loss_log, train_loss_log, _frozen, encoder >>]_vars

C14_Witness ==
  /\ predictions \in { Predictions(b) : b \in BatchesOver(Examples, 2) }
  /\ Len(predictions) = 2
  /\ pc = "fit" /\ ~_frozen
  /\ val_metrics # << >> /\ val_loss_log # << >> /\ train_loss_log.n > 0

\* the step taken is a training_step, an on_epoch_end
IsTrainingStep == batch_nb' = batch_nb + 1
IsOnEpochEnd == current_epoch' = current_epoch + 1

\* C15: the freeze flag, the encoder's trainable state and the calls made to
\* the encoder are changed by training_step and on_epoch_end only, never by
\* setup, validation_step, validation_epoch_end or predict_step; every change
\* is the whole transition from frozen to unfrozen (flag and encoder move
\* together, no half-done state is left for the next hook), and it is the
\* only unfreeze of the run.
C15_OnlySchedulerChangesFreeze ==
  [][freeze_vars' # freeze_vars =>
       /\ IsTrainingStep \/ IsOnEpochEnd
       /\ _frozen /\ ~encoder.layers_trainable
       /\ ~_frozen' /\ encoder'.layers_trainable
       /\ encoder_calls.unfreeze = 0 /\ encoder_calls'.unfreeze = 1]_vars

\* both call sites have fired their condition after the unfreeze, with
\* validation and prediction steps in between
C15_Witness ==
  /\ encoder_calls.unfreeze = 1
  /\ FractionalSchedule
  /\ current_epoch = 2 /\ StepsDone = EpochLength
  /\ IntGtIntTimesRat(StepsDone - 1, epoch_total_steps, F)
  /\ val_steps >= 1 /\ predictions # << >> /\ logged_metrics # << >>

\* C17: after construction and after every lifecycle operation _frozen is
\* true exactly when the encoder's non-embedding parameters are frozen.
C17_FlagMatchesEncoder == _frozen <=> ~encoder.layers_trainable

C17_Witness ==
  /\ FractionalSchedule
  /\ current_epoch = 0 /\ StepsDone > 0
  /\ ~_frozen /\ encoder.layers_trainable
  /\ encoder_calls.unfreeze = 1

\* frozen_epochs >= 1
AtLeastOneFrozenEpoch == ~RatBelowOne(F)

\* C19: for frozen_epochs >= 1, integer or not, no training_step changes the
\* freeze state; the encoder is unfrozen by on_epoch_end only, and exactly by
\* the hook of the first epoch whose index current_epoch is >= frozen_epochs
\* (for 1.5, the hook of epoch 2).
C19_UnfrozenAtEpochEndOnly ==
  [][(pc = "fit" /\ AtLeastOneFrozenEpoch) =>
       /\ IsTrainingStep => UNCHANGED freeze_vars
       /\ freeze_vars' # freeze_vars =>
            /\ IsOnEpochEnd /\ batch_nb' = 0
            /\ IntGeqRat(current_epoch, F)
            /\ \A e \in 0..(current_epoch - 1) : ~IntGeqRat(e, F)
       /\ (IsOnEpochEnd /\ IntGeqRat(current_epoch, F)) =>
            (~_frozen' /\ encoder'.layers_trainable)]_vars

C19_Witness ==
  /\ F = <<3, 2>>
  /\ current_epoch = 3 /\ batch_nb = 0
  /\ ~_frozen /\ encoder_calls.unfreeze = 1
  /\ train_loss_log.n = 3 * EpochLength

\* C18: on a single device epoch_total_steps as setup computes it equals the
\* number of training steps the train dataloader delivers per epoch, so the
\* index of every training step that has run is below epoch_total_steps.
C18_StepCountAgreement ==
  (pc = "fit" /\ num_gpus <= 1) =>
    /\ epoch_total_steps = EpochLength
    /\ StepsDone > 0 => StepsDone - 1 < epoch_total_steps

\* C20: for frozen_epochs > 0 and max_epochs > frozen_epochs, a run that has
\* finished its last epoch has unfrozen the encoder and has executed at least
\* one training step with the encoder trainable.
C20_TrainsUnfrozenBeforeRunEnds ==
  (/\ pc = "fit"
   /\ RatPositive(F)
   /\ IntGtIntTimesRat(max_epochs, 1, F)
   /\ current_epoch = max_epochs) =>
    (~_frozen /\ trainable_steps > 0)


====
